---- MODULE Spec2Model ----
(***************************************************************************)
(* cloud-echo (src/main.go): a microphone process (sox) is piped to a      *)
(* streaming speech-recognition call; every transcript that comes back is   *)
(* synthesized (say) and the resulting audio stream is written to a file.   *)
(* main() starts six goroutines that talk over two unbuffered channels,     *)
(* texts and streams.  log.Fatal / log.Fatalf end the whole process         *)
(* (os.Exit(1)): the model records that in `aborted`, and no step of the    *)
(* program is possible afterwards.                                          *)
(***************************************************************************)
EXTENDS Integers, Sequences, FiniteSets, TLC

\* ------------------------------------------------------------------ bounds
\* chunks the audio process writes to its stdout before it exits
MaxChunks == 1
\* transcripts (alternatives) the recognition backend emits in one session
MaxTranscripts == 2
\* results carried by one response
MaxResults == 2
\* alternatives carried by one result
MaxAlts == 2
\* transient (non-EOF) read errors the pipe reports while it is open
MaxReadErrs == 1
\* last instant of the wall clock, in ticks
MaxClock == 2
\* clock ticks per second: time.UnixDate prints whole seconds only
TicksPerSecond == 2

VARIABLES
    mainpc,        \* main(): "setup", "config", "start", "wait", "done"
    aborted,       \* log.Fatal was called: the process has exited with status 1
    sent,          \* the calls made on the recognition stream's send side, in order
    proc,          \* the audio process: "none", "running", "exited", "reaped"
    signalled,     \* os.Interrupt was delivered to the audio process
    produced,      \* chunks the audio process has written so far
    pipe,          \* chunks written and not yet read from the stdout pipe
    pipeClosed,    \* cmd.Wait closed the read side of the stdout pipe
    readErrs,      \* "Could not read from stdin" lines logged (saturating)
    stoppc,        \* stop listener: "idle", "read", "signal", "done"
    fwdpc,         \* forwarder: "idle", "read", "send", "closesend", "done"
    recvpc,        \* receive loop: "idle", "recv", "send", "done"
    recvEOF,       \* the receive loop saw io.EOF from stream.Recv
    recvFatal,     \* the receive loop saw a Recv error or a response Error
    emitted,       \* transcripts the backend has emitted so far (ids 1..emitted)
    pending,       \* transcripts of the current response not yet sent on texts
    textsClosed,   \* close(texts) was executed
    waitpc,        \* process-exit waiter: "idle", "wait", "done"
    waitErr,       \* cmd.Wait returned an error
    bridgepc,      \* bridge: "idle", "range", "say", "send", "close", "done"
    text,          \* the transcript the bridge holds (0: none)
    sayFailed,     \* transcripts for which say() returned an error
    streamsClosed, \* close(streams) was executed
    sinkpc,        \* sink: "idle", "range", "create", "copy", "done"
    sunk,          \* the streams the sink received from the streams channel, in order
    name,          \* the file name of the sink's current iteration (-1: none)
    files,         \* the output directory: file name -> stream it holds (0: empty,
                   \* -s: part of stream s)
    createFailed,  \* streams for which os.Create returned an error
    openStreams,   \* streams the sink received and has not closed
    deferred,      \* streams whose Close is deferred to the sink's return
    now            \* the wall clock as the sink last read it, in ticks

vars == << mainpc, aborted, sent, proc, signalled, produced, pipe,
           pipeClosed, readErrs, stoppc, fwdpc, recvpc, recvEOF, recvFatal,
           emitted, pending, textsClosed, waitpc, waitErr, bridgepc, text,
           sayFailed, streamsClosed, sinkpc, sunk, name, files, createFailed,
           openStreams, deferred, now >>

mainVars   == << mainpc >>
streamVars == << sent >>
procVars   == << proc, signalled, produced, pipe, pipeClosed >>
stopVars   == << stoppc >>
fwdVars    == << fwdpc, readErrs >>
recvVars   == << recvpc, recvEOF, recvFatal, emitted, pending, textsClosed >>
waitVars   == << waitpc, waitErr >>
bridgeVars == << bridgepc, text, sayFailed, streamsClosed >>
sinkVars   == << sinkpc, sunk, name, files, createFailed, openStreams, deferred >>
clockVars  == << now >>

\* ------------------------------------------------------------- helpers
Min(a, b) == IF a < b THEN a ELSE b

\* The process is alive: log.Fatal has not been called and main has not returned.
Running == ~aborted /\ mainpc # "done"

\* log.Fatal / log.Fatalf: print and os.Exit(1), taken as one step.
Fatal == aborted' = TRUE

\* time.Now().Format(time.UnixDate): the layout has no sub-second field.
Format(t) == t \div TicksPerSecond

\* os.Create(name): creates the file, or truncates the one that is there.
Create(fs, n) == [m \in (DOMAIN fs) \cup {n} |-> IF m = n THEN 0 ELSE fs[m]]

\* io.Copy(file, stream): the file now holds the stream's bytes.
Copy(fs, n, s) == [fs EXCEPT ![n] = s]

\* The shapes a response can have: a sequence of results, each with a number
\* of alternatives.
Shapes == UNION { [1..n -> 0..MaxAlts] : n \in 0..MaxResults }

RECURSIVE Total(_)
Total(s) == IF s = << >> THEN 0 ELSE Head(s) + Total(Tail(s))

\* The response of shape s when `base` transcripts were emitted before it: the
\* backend numbers its transcripts in the order it emits them.
Resp(s, base) ==
    [i \in 1..Len(s) |->
        [j \in 1..s[i] |-> base + Total(SubSeq(s, 1, i - 1)) + j]]

RECURSIVE FlattenReversed(_)
FlattenReversed(resp) ==
    IF resp = << >> THEN << >>
    ELSE FlattenReversed(Tail(resp)) \o Head(resp)

\* for _, result := range resp.Results { for _, alt := range result.Alternatives
\* { texts <- alt.Transcript } }: the order in which one response's transcripts
\* are sent on texts.
RECURSIVE Flatten(_)
Flatten(resp) ==
    IF resp = << >> THEN << >>
    ELSE Head(resp) \o Flatten(Tail(resp))

\* -------------------------------------------------------------------- Init
Init ==
    /\ mainpc = "setup"
    /\ aborted = FALSE
    /\ sent = << >>
    /\ proc = "none"
    /\ signalled = FALSE
    /\ produced = 0
    /\ pipe = 0
    /\ pipeClosed = FALSE
    /\ readErrs = 0
    /\ stoppc = "idle"
    /\ fwdpc = "idle"
    /\ recvpc = "idle"
    /\ recvEOF = FALSE
    /\ recvFatal = FALSE
    /\ emitted = 0
    /\ pending = << >>
    /\ textsClosed = FALSE
    /\ waitpc = "idle"
    /\ waitErr = FALSE
    /\ bridgepc = "idle"
    /\ text = 0
    /\ sayFailed = {}
    /\ streamsClosed = FALSE
    /\ sinkpc = "idle"
    /\ sunk = << >>
    /\ name = -1
    /\ files = << >>
    /\ createFailed = {}
    /\ openStreams = {}
    /\ deferred = {}
    /\ now = 0

\* ------------------------------------------------------------------ main()
\* DescribeVoices, speech.NewClient, client.StreamingRecognize and the codec
\* lookup succeed.
MainSetupOk ==
    /\ Running /\ mainpc = "setup"
    /\ mainpc' = "config"
    /\ UNCHANGED << aborted, streamVars, procVars, stopVars, fwdVars, recvVars,
                    waitVars, bridgeVars, sinkVars, clockVars >>

\* One of them fails: log.Fatalf.
MainSetupFail ==
    /\ Running /\ mainpc = "setup"
    /\ Fatal
    /\ UNCHANGED << mainVars, streamVars, procVars, stopVars, fwdVars, recvVars,
                    waitVars, bridgeVars, sinkVars, clockVars >>

\* stream.Send of the configuration message succeeds.
MainConfigOk ==
    /\ Running /\ mainpc = "config"
    /\ sent' = Append(sent, "config")
    /\ mainpc' = "start"
    /\ UNCHANGED << aborted, procVars, stopVars, fwdVars, recvVars, waitVars,
                    bridgeVars, sinkVars, clockVars >>

MainConfigFailIgnored ==
    /\ Running /\ mainpc = "config"
    /\ sent' = Append(sent, "configerr")
    /\ mainpc' = "start"
    /\ UNCHANGED << aborted, procVars, stopVars, fwdVars, recvVars, waitVars,
                    bridgeVars, sinkVars, clockVars >>

\* stream.Send of the configuration message fails: log.Fatal.
MainConfigFail ==
    /\ Running /\ mainpc = "config"
    /\ sent' = Append(sent, "configerr")
    /\ Fatal
    /\ UNCHANGED << mainVars, procVars, stopVars, fwdVars, recvVars, waitVars,
                    bridgeVars, sinkVars, clockVars >>

\* make(chan string), make(chan io.ReadCloser), cmd.StdoutPipe, cmd.Start all
\* succeed, and main starts the six goroutines and blocks in wg.Wait.
MainStartOk ==
    /\ Running /\ mainpc = "start"
    /\ proc' = "running"
    /\ stoppc' = "read"
    /\ fwdpc' = "read"
    /\ recvpc' = "recv"
    /\ waitpc' = "wait"
    /\ bridgepc' = "range"
    /\ sinkpc' = "range"
    /\ mainpc' = "wait"
    /\ UNCHANGED << aborted, streamVars, signalled, produced, pipe,
                    pipeClosed, readErrs, recvEOF, recvFatal, emitted, pending,
                    textsClosed, waitErr, text, sayFailed, streamsClosed, sunk,
                    name, files, createFailed, openStreams, deferred, clockVars >>

\* cmd.StdoutPipe or cmd.Start fails: log.Fatal.
MainStartFail ==
    /\ Running /\ mainpc = "start"
    /\ Fatal
    /\ UNCHANGED << mainVars, streamVars, procVars, stopVars, fwdVars, recvVars,
                    waitVars, bridgeVars, sinkVars, clockVars >>

AllWorkersDoneButReceiveAndBridge ==
    /\ stoppc = "done" /\ fwdpc = "done"
    /\ waitpc = "done" /\ sinkpc = "done"

\* The six goroutines have all called wg.Done.
AllWorkersDone ==
    /\ stoppc = "done" /\ fwdpc = "done" /\ recvpc = "done"
    /\ waitpc = "done" /\ bridgepc = "done" /\ sinkpc = "done"

\* wg.Wait returns and main returns.
MainDone ==
    /\ Running /\ mainpc = "wait"
    /\ AllWorkersDone
    /\ mainpc' = "done"
    /\ UNCHANGED << aborted, streamVars, procVars, stopVars, fwdVars, recvVars,
                    waitVars, bridgeVars, sinkVars, clockVars >>

\* ------------------------------------------------- the audio process (sox)
\* The process writes one more chunk to its stdout.
ProcWrite ==
    /\ Running /\ proc = "running"
    /\ produced < MaxChunks
    /\ produced' = produced + 1
    /\ pipe' = pipe + 1
    /\ UNCHANGED << mainVars, aborted, streamVars, proc, signalled,
                    pipeClosed, stopVars, fwdVars, recvVars, waitVars,
                    bridgeVars, sinkVars, clockVars >>

\* The process exits (on its own or because of the interrupt); its end of the
\* pipe closes.
ProcExit ==
    /\ Running /\ proc = "running"
    /\ proc' = "exited"
    /\ UNCHANGED << mainVars, aborted, streamVars, signalled, produced, pipe,
                    pipeClosed, stopVars, fwdVars, recvVars, waitVars,
                    bridgeVars, sinkVars, clockVars >>

\* ---------------------------------------------------- stop-signal listener
\* bufio.NewReader(os.Stdin).ReadBytes('\n') returns.
StopRead ==
    /\ Running /\ stoppc = "read"
    /\ stoppc' = "signal"
    /\ UNCHANGED << mainVars, aborted, streamVars, procVars, fwdVars, recvVars,
                    waitVars, bridgeVars, sinkVars, clockVars >>

\* cmd.Process.Signal(os.Interrupt) succeeds: the process has not been waited
\* for yet.  A process that has already exited takes no notice of it.
StopSignalOk ==
    /\ Running /\ stoppc = "signal"
    /\ proc \in {"running", "exited"}
    /\ signalled' = (signalled \/ proc = "running")
    /\ stoppc' = "done"
    /\ UNCHANGED << mainVars, aborted, streamVars, proc, produced, pipe,
                    pipeClosed, fwdVars, recvVars, waitVars, bridgeVars,
                    sinkVars, clockVars >>

\* cmd.Process.Signal fails ("os: process already finished", after cmd.Wait):
\* log.Fatal.
StopSignalFail ==
    /\ Running /\ stoppc = "signal"
    /\ proc = "reaped"
    /\ Fatal
    /\ UNCHANGED << mainVars, streamVars, procVars, stopVars, fwdVars, recvVars,
                    waitVars, bridgeVars, sinkVars, clockVars >>

\* ---------------------------------------------------- audio-chunk forwarder
\* out.Read returns a chunk.
FwdReadChunk ==
    /\ Running /\ fwdpc = "read"
    /\ ~pipeClosed /\ pipe > 0
    /\ pipe' = pipe - 1
    /\ fwdpc' = "send"
    /\ UNCHANGED << mainVars, aborted, streamVars, proc, signalled,
                    produced, pipeClosed, readErrs, stopVars, recvVars,
                    waitVars, bridgeVars, sinkVars, clockVars >>

\* out.Read returns io.EOF: the pipe is empty and its write side is closed.
FwdReadEOF ==
    /\ Running /\ fwdpc = "read"
    /\ ~pipeClosed /\ pipe = 0 /\ proc = "exited"
    /\ fwdpc' = "closesend"
    /\ UNCHANGED << mainVars, aborted, streamVars, procVars, readErrs, stopVars,
                    recvVars, waitVars, bridgeVars, sinkVars, clockVars >>

FwdReadErrEndsLoop ==
    /\ Running /\ fwdpc = "read"
    /\ ~pipeClosed /\ readErrs < MaxReadErrs
    /\ readErrs' = readErrs + 1
    /\ fwdpc' = "closesend"
    /\ UNCHANGED << mainVars, aborted, streamVars, procVars, stopVars,
                    recvVars, waitVars, bridgeVars, sinkVars, clockVars >>

\* out.Read returns an error that is not io.EOF while the pipe is open: logged,
\* continue.
FwdReadErr ==
    /\ Running /\ fwdpc = "read"
    /\ ~pipeClosed /\ readErrs < MaxReadErrs
    /\ readErrs' = readErrs + 1
    /\ UNCHANGED << mainVars, aborted, streamVars, procVars, fwdpc, stopVars,
                    recvVars, waitVars, bridgeVars, sinkVars, clockVars >>

\* out.Read on the pipe cmd.Wait has closed returns "file already closed",
\* which is not io.EOF: logged, continue.
FwdReadClosed ==
    /\ Running /\ fwdpc = "read"
    /\ pipeClosed
    /\ readErrs' = Min(readErrs + 1, MaxReadErrs)
    /\ UNCHANGED << mainVars, aborted, streamVars, procVars, fwdpc, stopVars,
                    recvVars, waitVars, bridgeVars, sinkVars, clockVars >>

\* stream.Send of the audio chunk succeeds.
FwdSendOk ==
    /\ Running /\ fwdpc = "send"
    /\ sent' = Append(sent, "audio")
    /\ fwdpc' = "read"
    /\ UNCHANGED << mainVars, aborted, procVars, readErrs, stopVars, recvVars,
                    waitVars, bridgeVars, sinkVars, clockVars >>

FwdSendErrEndsLoop ==
    /\ Running /\ fwdpc = "send"
    /\ sent' = Append(sent, "audioerr")
    /\ fwdpc' = "done"
    /\ UNCHANGED << mainVars, aborted, procVars, readErrs, stopVars, recvVars,
                    waitVars, bridgeVars, sinkVars, clockVars >>

\* stream.Send of the audio chunk fails: logged, the loop goes on.
FwdSendErr ==
    /\ Running /\ fwdpc = "send"
    /\ sent' = Append(sent, "audioerr")
    /\ fwdpc' = "read"
    /\ UNCHANGED << mainVars, aborted, procVars, readErrs, stopVars, recvVars,
                    waitVars, bridgeVars, sinkVars, clockVars >>

FwdCloseSendOkNoReturn ==
    /\ Running /\ fwdpc = "closesend"
    /\ sent' = Append(sent, "close")
    /\ fwdpc' = "read"
    /\ UNCHANGED << mainVars, aborted, procVars, readErrs, stopVars, recvVars,
                    waitVars, bridgeVars, sinkVars, clockVars >>

\* stream.CloseSend succeeds: return.
FwdCloseSendOk ==
    /\ Running /\ fwdpc = "closesend"
    /\ sent' = Append(sent, "close")
    /\ fwdpc' = "done"
    /\ UNCHANGED << mainVars, aborted, procVars, readErrs, stopVars, recvVars,
                    waitVars, bridgeVars, sinkVars, clockVars >>

\* stream.CloseSend fails: log.Fatalf.
FwdCloseSendFail ==
    /\ Running /\ fwdpc = "closesend"
    /\ sent' = Append(sent, "closeerr")
    /\ Fatal
    /\ UNCHANGED << mainVars, procVars, fwdVars, stopVars, recvVars, waitVars,
                    bridgeVars, sinkVars, clockVars >>

\* ------------------------------------------------ recognition receive loop
\* stream.Recv returns a response with results: the loop starts sending their
\* alternatives on texts (none to send: it calls Recv again).
RecvResults ==
    /\ Running /\ recvpc = "recv"
    /\ \E s \in Shapes :
          /\ emitted + Total(s) <= MaxTranscripts
          /\ emitted' = emitted + Total(s)
          /\ pending' = Flatten(Resp(s, emitted))
    /\ recvpc' = IF pending' = << >> THEN "recv" ELSE "send"
    /\ UNCHANGED << mainVars, aborted, streamVars, procVars, stopVars, fwdVars,
                    recvEOF, recvFatal, textsClosed, waitVars, bridgeVars,
                    sinkVars, clockVars >>

RecvEOFNoBreak ==
    /\ Running /\ recvpc = "recv"
    /\ recvEOF' = TRUE
    /\ textsClosed' = TRUE
    /\ UNCHANGED << mainVars, aborted, streamVars, procVars, stopVars, fwdVars,
                    recvpc, recvFatal, emitted, pending, waitVars, bridgeVars,
                    sinkVars, clockVars >>

\* stream.Recv returns io.EOF: close(texts), break.
RecvEOF ==
    /\ Running /\ recvpc = "recv"
    /\ recvEOF' = TRUE
    /\ textsClosed' = TRUE
    /\ recvpc' = "done"
    /\ UNCHANGED << mainVars, aborted, streamVars, procVars, stopVars, fwdVars,
                    recvFatal, emitted, pending, waitVars, bridgeVars, sinkVars,
                    clockVars >>

RecvErrLogged ==
    /\ Running /\ recvpc = "recv"
    /\ recvFatal' = TRUE
    /\ UNCHANGED << mainVars, aborted, streamVars, procVars, stopVars, fwdVars,
                    recvpc, recvEOF, emitted, pending, textsClosed, waitVars,
                    bridgeVars, sinkVars, clockVars >>

\* stream.Recv returns an error that is not io.EOF: log.Fatalf.
RecvErr ==
    /\ Running /\ recvpc = "recv"
    /\ recvFatal' = TRUE
    /\ Fatal
    /\ UNCHANGED << mainVars, streamVars, procVars, stopVars, fwdVars, recvpc,
                    recvEOF, emitted, pending, textsClosed, waitVars,
                    bridgeVars, sinkVars, clockVars >>

\* stream.Recv returns a response whose Error is set: log.Fatalf.
RecvRespError ==
    /\ Running /\ recvpc = "recv"
    /\ recvFatal' = TRUE
    /\ Fatal
    /\ UNCHANGED << mainVars, streamVars, procVars, stopVars, fwdVars, recvpc,
                    recvEOF, emitted, pending, textsClosed, waitVars,
                    bridgeVars, sinkVars, clockVars >>

TextsHandOffBuffered ==
    /\ Running /\ recvpc = "send"
    /\ ~textsClosed
    /\ text' = Head(pending)
    /\ pending' = Tail(pending)
    /\ recvpc' = IF pending' = << >> THEN "recv" ELSE "send"
    /\ bridgepc' = "say"
    /\ UNCHANGED << mainVars, aborted, streamVars, procVars, stopVars, fwdVars,
                    recvEOF, recvFatal, emitted, textsClosed, waitVars,
                    sayFailed, streamsClosed, sinkVars, clockVars >>

\* texts <- alt.Transcript meets the bridge's `range texts`: texts is
\* unbuffered, so the send completes when the bridge receives.
TextsHandOff ==
    /\ Running /\ recvpc = "send" /\ bridgepc = "range"
    /\ ~textsClosed
    /\ text' = Head(pending)
    /\ pending' = Tail(pending)
    /\ recvpc' = IF pending' = << >> THEN "recv" ELSE "send"
    /\ bridgepc' = "say"
    /\ UNCHANGED << mainVars, aborted, streamVars, procVars, stopVars, fwdVars,
                    recvEOF, recvFatal, emitted, textsClosed, waitVars,
                    sayFailed, streamsClosed, sinkVars, clockVars >>

\* ------------------------------------------------------ process-exit waiter
\* cmd.Wait returns nil: the process has exited, with status 0; Wait has
\* released it and closed the read side of the stdout pipe.
WaitOk ==
    /\ Running /\ waitpc = "wait"
    /\ proc = "exited"
    /\ proc' = "reaped"
    /\ pipeClosed' = TRUE
    /\ waitpc' = "done"
    /\ UNCHANGED << mainVars, aborted, streamVars, signalled, produced,
                    pipe, stopVars, fwdVars, recvVars, waitErr, bridgeVars,
                    sinkVars, clockVars >>

\* cmd.Wait returns an error: the process has exited with another status or
\* was killed by the signal; Wait has released it and closed the pipe.
\* log.Fatalf.
WaitFail ==
    /\ Running /\ waitpc = "wait"
    /\ proc = "exited"
    /\ proc' = "reaped"
    /\ pipeClosed' = TRUE
    /\ waitErr' = TRUE
    /\ Fatal
    /\ UNCHANGED << mainVars, streamVars, signalled, produced, pipe,
                    stopVars, fwdVars, recvVars, waitpc, bridgeVars, sinkVars,
                    clockVars >>

\* ------------------------------------------------------------------- bridge
\* `range texts` ends: texts is closed (and, being unbuffered, empty).
BridgeRangeEnd ==
    /\ Running /\ bridgepc = "range"
    /\ textsClosed
    /\ bridgepc' = "close"
    /\ UNCHANGED << mainVars, aborted, streamVars, procVars, stopVars, fwdVars,
                    recvVars, waitVars, text, sayFailed, streamsClosed,
                    sinkVars, clockVars >>

\* say(svc, voice, text) returns the audio stream.
BridgeSayOk ==
    /\ Running /\ bridgepc = "say"
    /\ bridgepc' = "send"
    /\ UNCHANGED << mainVars, aborted, streamVars, procVars, stopVars, fwdVars,
                    recvVars, waitVars, text, sayFailed, streamsClosed,
                    sinkVars, clockVars >>

\* say(svc, voice, text) returns an error: break.
BridgeSayFail ==
    /\ Running /\ bridgepc = "say"
    /\ sayFailed' = sayFailed \cup {text}
    /\ bridgepc' = "close"
    /\ UNCHANGED << mainVars, aborted, streamVars, procVars, stopVars, fwdVars,
                    recvVars, waitVars, text, streamsClosed, sinkVars,
                    clockVars >>

\* close(streams) after the loop, then return.
BridgeClose ==
    /\ Running /\ bridgepc = "close"
    /\ streamsClosed' = TRUE
    /\ bridgepc' = "done"
    /\ UNCHANGED << mainVars, aborted, streamVars, procVars, stopVars, fwdVars,
                    recvVars, waitVars, text, sayFailed, sinkVars, clockVars >>

\* streams <- stream meets the sink's `range streams` (unbuffered).
StreamsHandOff ==
    /\ Running /\ bridgepc = "send" /\ sinkpc = "range"
    /\ ~streamsClosed
    /\ sunk' = Append(sunk, text)
    /\ openStreams' = openStreams \cup {text}
    /\ sinkpc' = "create"
    /\ bridgepc' = "range"
    /\ UNCHANGED << mainVars, aborted, streamVars, procVars, stopVars, fwdVars,
                    recvVars, waitVars, text, sayFailed, streamsClosed, name,
                    files, createFailed, deferred, clockVars >>

\* --------------------------------------------------------------------- sink
\* The stream of the sink's current iteration.
SinkStream == sunk[Len(sunk)]

\* now := time.Now() reads a clock that never runs backwards; name is derived
\* from it; os.Create(name) succeeds.
SinkCreateOk ==
    /\ Running /\ sinkpc = "create"
    /\ \E t \in now..MaxClock : now' = t
    /\ name' = Format(now')
    /\ files' = Create(files, name')
    /\ sinkpc' = "copy"
    /\ UNCHANGED << mainVars, aborted, streamVars, procVars, stopVars, fwdVars,
                    recvVars, waitVars, bridgeVars, sunk, createFailed,
                    openStreams, deferred >>

\* now := time.Now(); os.Create(name) fails: log.Fatal.
SinkCreateFail ==
    /\ Running /\ sinkpc = "create"
    /\ \E t \in now..MaxClock : now' = t
    /\ name' = Format(now')
    /\ createFailed' = createFailed \cup {SinkStream}
    /\ Fatal
    /\ UNCHANGED << mainVars, streamVars, procVars, stopVars, fwdVars, recvVars,
                    waitVars, bridgeVars, sinkpc, sunk, files, openStreams,
                    deferred >>

\* io.Copy(file, stream) copies the whole stream, or fails part-way and its
\* error is dropped; defer stream.Close(); next iteration.
SinkCopy ==
    /\ Running /\ sinkpc = "copy"
    /\ \E ok \in BOOLEAN :
          files' = Copy(files, name, IF ok THEN SinkStream ELSE -SinkStream)
    /\ deferred' = deferred \cup {SinkStream}
    /\ sinkpc' = "range"
    /\ UNCHANGED << mainVars, aborted, streamVars, procVars, stopVars, fwdVars,
                    recvVars, waitVars, bridgeVars, sunk, name, createFailed,
                    openStreams, clockVars >>

\* `range streams` ends: streams is closed.  The goroutine returns and its
\* deferred Close calls run.
SinkRangeEnd ==
    /\ Running /\ sinkpc = "range"
    /\ streamsClosed
    /\ openStreams' = openStreams \ deferred
    /\ deferred' = {}
    /\ sinkpc' = "done"
    /\ UNCHANGED << mainVars, aborted, streamVars, procVars, stopVars, fwdVars,
                    recvVars, waitVars, bridgeVars, sunk, name, files,
                    createFailed, clockVars >>

\* --------------------------------------------------------------------- Next
Main    == MainSetupOk \/ MainSetupFail \/ MainConfigOk \/ MainConfigFail
              \/ MainStartOk \/ MainStartFail \/ MainDone
Process == ProcWrite \/ ProcExit
Stop    == StopRead \/ StopSignalOk \/ StopSignalFail
Forward == FwdReadChunk \/ FwdReadEOF \/ FwdReadErr \/ FwdReadClosed
              \/ FwdSendOk \/ FwdSendErr \/ FwdCloseSendOk \/ FwdCloseSendFail
Receive == RecvResults \/ RecvEOF \/ RecvErr \/ RecvRespError
Waiter  == WaitOk \/ WaitFail
Bridge  == BridgeRangeEnd \/ BridgeSayOk \/ BridgeSayFail \/ BridgeClose
Sink    == SinkCreateOk \/ SinkCreateFail \/ SinkCopy \/ SinkRangeEnd

Next ==
    \/ Main \/ Process \/ Stop \/ Forward \/ Receive \/ TextsHandOff
    \/ Waiter \/ Bridge \/ StreamsHandOff \/ Sink

Spec == Init /\ [][Next]_vars

\* Go schedules every goroutine that can run, a call that was made returns,
\* the backend ends its response stream, the user presses Enter, and the audio
\* process exits once it was interrupted.  Nothing makes a call succeed rather
\* than fail.
FairSpec ==
    /\ Spec
    /\ WF_vars(Main)
    /\ WF_vars(Stop)
    /\ WF_vars(Forward)
    /\ WF_vars(RecvEOF)
    /\ WF_vars(TextsHandOff)
    /\ WF_vars(Waiter)
    /\ WF_vars(Bridge)
    /\ WF_vars(StreamsHandOff)
    /\ WF_vars(Sink)
    /\ WF_vars(signalled /\ ProcExit)

\* ------------------------------------------------------------------ claims
IsAudio(m) == m \in {"audio", "audioerr"}

\* The forwarder's read of the audio process's output has returned io.EOF.
SourceEOF == fwdpc \in {"closesend", "done"}

\* Streams for which os.Create has succeeded.
FilesCreated == IF sinkpc = "create" THEN Len(sunk) - 1 ELSE Len(sunk)

\* A call into the backend, the file system or the audio process has failed
\* and the code has ended the process for it.
FailedCall ==
    \/ waitErr
    \/ recvFatal
    \/ createFailed # {}
    \/ \E i \in 1..Len(sent) : sent[i] = "closeerr"

\* Both channels closed, the six goroutines returned, no log.Fatal.
CleanShutdown ==
    /\ textsClosed /\ streamsClosed
    /\ AllWorkersDone
    /\ ~aborted

\* C1: the one configuration message is sent, successfully, before any audio
\* chunk is sent on the recognition stream; when the configuration Send fails
\* no audio chunk is ever sent.
C1_ConfigBeforeAudio ==
    /\ Cardinality({i \in 1..Len(sent) : sent[i] \in {"config", "configerr"}}) <= 1
    /\ \A i \in 1..Len(sent) :
          IsAudio(sent[i]) => \E j \in 1..(i - 1) : sent[j] = "config"
    /\ (\E j \in 1..Len(sent) : sent[j] = "configerr")
          => ~\E i \in 1..Len(sent) : IsAudio(sent[i])

C1_Witness ==
    \E i \in 1..Len(sent) : sent[i] = "audio"

\* C2: the sink receives (and so writes) the audio streams in the order in
\* which the backend emitted their transcripts.
C2_OrderPreserved ==
    \A i, j \in 1..Len(sunk) : i < j => sunk[i] < sunk[j]

C2_Witness ==
    /\ Len(sunk) >= 2
    /\ sinkpc = "range"
    /\ \E n \in DOMAIN files : files[n] = sunk[Len(sunk)]

\* C3: once the audio source has reached end-of-input, the pipeline eventually
\* closes both channels and all six goroutines return.  Read in the code's
\* favour: executions in which a call failed fatally are not held against it.
C3_EofLeadsToShutdown ==
    SourceEOF ~> ((textsClosed /\ streamsClosed /\ AllWorkersDone) \/ FailedCall)

\* C4: when say() returns an error for a transcript, the bridge skips it and
\* goes on ranging over texts.
C4_BridgeContinuesAfterSayError ==
    [][sayFailed' # sayFailed => bridgepc' = "range"]_vars

\* C5: texts is closed only after the receive loop saw the backend's
\* end-of-stream, and streams is closed only after texts is closed.
C5_OrderedShutdown ==
    /\ textsClosed => recvEOF
    /\ streamsClosed => textsClosed

\* C6: a failure to create the output file of one stream aborts only that
\* item: the process goes on and the sink takes the next stream.
C6_CreateFailureSkipsItem ==
    [][createFailed' # createFailed => (~aborted' /\ sinkpc' = "range")]_vars

\* C7: an error from cmd.Wait after the interrupt was sent is only logged; it
\* does not abort the process.
C7_WaitErrorOnlyLogged ==
    (signalled /\ waitErr) => ~aborted

\* C8: once the receive loop has seen a backend error the process is aborted,
\* nothing changes any more and main never returns normally.
C8_BackendErrorFatal ==
    [][/\ recvFatal' => (aborted' /\ mainpc' # "done")
       /\ recvFatal => UNCHANGED vars]_vars

C8_Witness ==
    /\ recvFatal
    /\ recvpc = "recv"
    /\ emitted > 0

\* C9: every stream the sink has created a file for has a file of its own: as
\* many files exist as streams were written.
C9_OneFilePerStream ==
    Cardinality(DOMAIN files) = FilesCreated

\* C10: with exactly one transcript, whose synthesis fails, no stream reaches
\* the sink and no file is written, and once the source and the backend have
\* ended the pipeline reaches clean shutdown.  Read in the code's favour:
\* executions in which a call other than say() failed are not held against it.
C10_OneFailedTranscript ==
    /\ [](sayFailed = {1} /\ emitted = 1 => sunk = << >> /\ files = << >>)
    /\ (sayFailed = {1} /\ emitted = 1 /\ SourceEOF /\ recvEOF)
          ~> (CleanShutdown \/ FailedCall)

\* C11: when the audio process exits at once, without writing a chunk, the
\* configuration has still been sent, the forwarder sends no audio, texts is
\* closed with no item, no file is written, and the pipeline reaches clean
\* shutdown.  Read in the code's favour: executions in which a call failed are
\* not held against it.
C11_ImmediateExit ==
    /\ [](produced = 0 /\ SourceEOF
            => /\ \E i \in 1..Len(sent) : sent[i] = "config"
               /\ ~\E i \in 1..Len(sent) : IsAudio(sent[i]))
    /\ [](produced = 0 /\ SourceEOF /\ emitted = 0 /\ recvEOF
            => textsClosed /\ sunk = << >> /\ files = << >>)
    /\ (produced = 0 /\ SourceEOF /\ emitted = 0 /\ recvEOF)
          ~> (CleanShutdown \/ FailedCall)

\* The bridge is synthesizing a transcript or handing its stream to the sink.
BridgeBusy == bridgepc \in {"say", "send"}

\* C12 (as claimed): while the bridge is busy with transcript N, the receive
\* loop can hand transcript N+1 to the transcript queue without waiting.
C12_EnqueueWhileBridgeBusy ==
    (Running /\ BridgeBusy /\ recvpc = "send") => ENABLED TextsHandOff

\* C12 (amended): while the bridge is busy with transcript N the receive loop
\* can still receive from the backend, but its send of transcript N+1 on the
\* unbuffered texts waits until the bridge is back at `range texts`.
C12_SendWaitsForBridge ==
    /\ (Running /\ BridgeBusy /\ recvpc = "recv") => ENABLED Receive
    /\ (Running /\ BridgeBusy /\ recvpc = "send") => ~ENABLED TextsHandOff
    /\ (Running /\ bridgepc = "range" /\ recvpc = "send") => ENABLED TextsHandOff

C12_Witness ==
    /\ Running /\ BridgeBusy
    /\ recvpc = "send"
    /\ text + 1 = Head(pending)

IsClose(m) == m \in {"close", "closeerr"}

\* C13: the forwarder calls CloseSend once, on end-of-input, and then leaves
\* its loop; no audio chunk is sent after CloseSend.
C13_CloseSendOnceAndLast ==
    /\ Cardinality({i \in 1..Len(sent) : IsClose(sent[i])}) <= 1
    /\ \A i \in 1..Len(sent) : IsClose(sent[i]) => i = Len(sent)
    /\ (\E i \in 1..Len(sent) : sent[i] = "close") <=> fwdpc = "done"
    /\ (fwdpc = "closesend" /\ ~aborted)
          => ~\E i \in 1..Len(sent) : IsClose(sent[i])

C13_Witness ==
    /\ fwdpc = "done"
    /\ \E i \in 1..Len(sent) : sent[i] = "audio"
    /\ sent[Len(sent)] = "close"

\* C14: the sink closes every stream it took before it takes the next one: it
\* never holds more than one unclosed stream, and none while it waits for the
\* next.
C14_StreamClosedBeforeNext ==
    /\ Cardinality(openStreams) <= 1
    /\ sinkpc \in {"range", "done"} => openStreams = {}

\* C15: a read error that is not end-of-stream is skipped: the forwarder stays
\* in its loop, the process is not aborted, nothing is sent or closed for it,
\* and a chunk read afterwards is sent on the recognition stream.
C15_ReadErrorSkipped ==
    [][/\ (readErrs' # readErrs)
            => (fwdpc' = "read" /\ ~aborted' /\ sent' = sent)
       /\ (readErrs > 0 /\ fwdpc = "read" /\ pipe' < pipe) => fwdpc' = "send"
       /\ (readErrs > 0 /\ fwdpc = "send" /\ fwdpc' # "send")
            => (Len(sent') = Len(sent) + 1 /\ IsAudio(sent'[Len(sent')]))]_vars

\* A chunk read after a failed read is about to be sent.
C15_Witness ==
    /\ readErrs > 0 /\ ~pipeClosed /\ ~aborted
    /\ fwdpc = "send"
    /\ sent = << "config" >>

\* C16: when main returns from wg.Wait, texts and streams are closed and
\* nothing is pending in or blocked on either of them.
C16_QueuesClosedAtCompletion ==
    mainpc = "done"
        => /\ textsClosed /\ streamsClosed
           /\ pending = << >> /\ recvpc # "send"
           /\ bridgepc \notin {"say", "send"}
           /\ sinkpc \notin {"create", "copy"}

C16_Witness ==
    /\ mainpc = "done"
    /\ Len(sunk) >= 1

\* C17: nobody sends on a closed channel and no channel is closed twice:
\* texts is closed by the receive loop, when it has seen end-of-stream, and the
\* loop is over then; streams is closed by the bridge, which is over then.
C17_NoSendOnClosedNoDoubleClose ==
    /\ recvpc = "send" => ~textsClosed
    /\ bridgepc = "send" => ~streamsClosed
    /\ textsClosed => (recvEOF /\ recvpc = "done")
    /\ streamsClosed => bridgepc = "done"

C17_Witness ==
    /\ textsClosed /\ streamsClosed
    /\ Len(sunk) >= 1
    /\ sayFailed = {}

\* Transcripts the bridge has taken from texts.
Taken == emitted - Len(pending)

\* Transcripts taken by the bridge that neither failed in say() nor reached
\* the sink.
InFlight == Taken - Cardinality(sayFailed) - Len(sunk)

\* C18 (as claimed): at most one transcript is in flight between texts and the
\* sink, and the receive loop holds at most one transcript not yet handed to
\* the bridge.
C18_AtMostOneEach ==
    /\ InFlight <= 1
    /\ Len(pending) <= 1

\* C18 (amended): at most one transcript is in flight between texts and the
\* sink, namely the one the bridge is busy with; the receive loop holds only
\* the not yet handed transcripts of the one response it is processing, which
\* can be several, and offers them in order.
C18_BoundedInFlight ==
    /\ InFlight \in 0..1
    /\ InFlight = 1 <=> BridgeBusy
    /\ pending # << >> <=> recvpc = "send"
    /\ Len(pending) <= MaxResults * MaxAlts
    /\ pending = [i \in 1..Len(pending) |-> Taken + i]

\* The bridge is busy with transcript 1 while the receive loop offers 2.
C18_Witness ==
    /\ InFlight = 1
    /\ bridgepc = "send"
    /\ pending = << 2 >>
    /\ recvpc = "send"

\* C19: the forwarder leaves its loop only by reading io.EOF: a read error
\* that is not io.EOF and a failed audio Send keep it in the loop, CloseSend is
\* called only after io.EOF, and once the pipe gives nothing but errors the
\* forwarder never leaves the loop and never calls CloseSend.
C19_ForwarderEndsOnlyOnEOF ==
    [][/\ (fwdpc \in {"read", "send"} /\ fwdpc' \in {"closesend", "done"})
            => (fwdpc = "read" /\ fwdpc' = "closesend" /\ readErrs' = readErrs
                /\ pipe = 0 /\ proc = "exited" /\ ~pipeClosed)
       /\ (Len(sent') > Len(sent) /\ sent'[Len(sent')] = "audioerr")
            => (fwdpc' = "read" /\ ~aborted')
       /\ (Len(sent') > Len(sent) /\ IsClose(sent'[Len(sent')]))
            => fwdpc = "closesend"
       /\ (pipeClosed /\ fwdpc = "read")
            => (fwdpc' = "read" /\ sent' = sent)]_vars

\* After a failed audio Send the forwarder went on and ended on io.EOF.
C19_Witness ==
    /\ fwdpc = "done"
    /\ \E i \in 1..Len(sent) : sent[i] = "audioerr"
    /\ sent[Len(sent)] = "close"

====
